---- MODULE Spec2Model ----
(***************************************************************************)
(* A model of app.py of comfyui-catalog: the identifier resolver, the      *)
(* schema enforcer, the two filters, the credential provider and the       *)
(* cached dataset loader with its reload button.                           *)
(*                                                                         *)
(* A Python str on which characters are inspected is a sequence of         *)
(* one-character strings; names and cells that are only compared or copied *)
(* are plain strings.  A table (a DataFrame) is a record [columns, index,  *)
(* rows]: the column names in order, the index labels, and the rows in     *)
(* order, each row a sequence of cells aligned with columns.               *)
(***************************************************************************)
EXTENDS Integers, Sequences, FiniteSets, TLC

VARIABLES
    clock,            \* seconds since process start (the caches' timer)
    data_cache,       \* st.cache_data store of load_sheet: argument -> entry
    resource_cache,   \* st.cache_resource store of get_google_client
    sheet_url_input,  \* st.session_state["sheet_url_input"]
    pc,               \* position of the script run
    cleared,          \* history: caches cleared by the reload in progress
    history,          \* history: per argument, the latest load_sheet call since the last clear
    resolve_runs,     \* history: executions of get_google_client's body since the last clear
    clients_seen,     \* history: clients handed to load_sheet since the last clear
    last_load,        \* history: what the latest load_sheet call did
    arg,              \* argument(s) of the function under study
    ret,              \* its return value
    phase             \* "input" while arguments are built, "done" after the call

loader_vars == <<clock, data_cache, resource_cache, sheet_url_input, pc, cleared,
                 history, resolve_runs, clients_seen, last_load>>
fn_vars == <<arg, ret, phase>>
vars == <<loader_vars, fn_vars>>

None == "None"

-----------------------------------------------------------------------------
(* Bounds of the model *)

MaxPieces == 4     \* pieces an input string of extract_sheet_id is built from
MaxRows == 2       \* rows of a table
MaxCols == 2       \* columns of a table given to ensure_cols
MaxReq == 3        \* length of the required-column list
MaxTime == 450     \* the clock stops advancing here
MaxRuns == 2       \* cap of the resolve_runs counter

-----------------------------------------------------------------------------
(* Strings *)

Upper == {"A","B","C","D","E","F","G","H","I","J","K","L","M",
          "N","O","P","Q","R","S","T","U","V","W","X","Y","Z"}
LowerLetters == {"a","b","c","d","e","f","g","h","i","j","k","l","m",
          "n","o","p","q","r","s","t","u","v","w","x","y","z"}
UpperSeq == <<"A","B","C","D","E","F","G","H","I","J","K","L","M",
              "N","O","P","Q","R","S","T","U","V","W","X","Y","Z">>
LowerSeq == <<"a","b","c","d","e","f","g","h","i","j","k","l","m",
              "n","o","p","q","r","s","t","u","v","w","x","y","z">>
Digits == {"0","1","2","3","4","5","6","7","8","9"}

\* the character class [A-Za-z0-9-_] of both patterns
IdChars == Upper \cup LowerLetters \cup Digits \cup {"-", "_"}

\* the literal "/spreadsheets/d/" of the URL pattern
UrlPrefix == <<"/","s","p","r","e","a","d","s","h","e","e","t","s","/","d","/">>

\* the {20,} of the ID pattern
MinIdLen == 20

\* re.fullmatch(r"[A-Za-z0-9-_]{20,}", s) is not None
FullMatchId(s) == Len(s) >= MinIdLen /\ \A i \in 1..Len(s) : s[i] \in IdChars

\* the pattern /spreadsheets/d/([A-Za-z0-9-_]+) matches at position i
MatchAt(s, i) ==
    /\ i + Len(UrlPrefix) <= Len(s)
    /\ SubSeq(s, i, i + Len(UrlPrefix) - 1) = UrlPrefix
    /\ s[i + Len(UrlPrefix)] \in IdChars

\* re.search scans left to right: the leftmost matching position, 0 for no match
RECURSIVE SearchFrom(_, _)
SearchFrom(s, i) ==
    IF i > Len(s) THEN 0
    ELSE IF MatchAt(s, i) THEN i
    ELSE SearchFrom(s, i + 1)

\* a group that stops after its first character (a lazy +?)
RunEndLazy(s, i) == i

\* the + of the group is greedy: last index of the run of class characters from i
RECURSIVE RunEnd(_, _)
RunEnd(s, i) ==
    IF i + 1 <= Len(s) /\ s[i + 1] \in IdChars THEN RunEnd(s, i + 1) ELSE i

\* m.group(1) of the match at position p
Group1(s, p) == SubSeq(s, p + Len(UrlPrefix), RunEnd(s, p + Len(UrlPrefix)))

extract_sheet_id(url_or_id) ==
    IF url_or_id = <<>> THEN <<>>
    ELSE IF FullMatchId(url_or_id) THEN url_or_id
    ELSE LET p == SearchFrom(url_or_id, 1)
         IN  IF p # 0 THEN Group1(url_or_id, p) ELSE url_or_id

-----------------------------------------------------------------------------
(* str methods used by the normaliser and the filters *)

Range(f) == {f[i] : i \in DOMAIN f}

LowerChar(c) == IF c \in Upper THEN LowerSeq[CHOOSE i \in 1..26 : UpperSeq[i] = c] ELSE c
UpperChar(c) == IF c \in LowerLetters THEN UpperSeq[CHOOSE i \in 1..26 : LowerSeq[i] = c] ELSE c

\* str.lower() and str.upper()
lower(s) == [i \in 1..Len(s) |-> LowerChar(s[i])]
upper(s) == [i \in 1..Len(s) |-> UpperChar(s[i])]

\* str.strip(): leading and trailing whitespace removed
RECURSIVE lstrip(_)
lstrip(s) == IF s # <<>> /\ Head(s) = " " THEN lstrip(Tail(s)) ELSE s
RECURSIVE rstrip(_)
rstrip(s) == IF s # <<>> /\ s[Len(s)] = " " THEN rstrip(SubSeq(s, 1, Len(s) - 1)) ELSE s
strip(s) == rstrip(lstrip(s))

\* pat in x
In(pat, x) == \E i \in 0..(Len(x) - Len(pat)) : SubSeq(x, i + 1, i + Len(pat)) = pat

-----------------------------------------------------------------------------
(* Tables *)

\* pd.DataFrame()
EmptyFrame == [columns |-> <<>>, index |-> <<>>, rows |-> <<>>]

\* pd.DataFrame(records): columns from the header, a RangeIndex
DataFrame(header, records) ==
    [columns |-> header, index |-> [i \in 1..Len(records) |-> i - 1], rows |-> records]

\* normalize_columns: a copy whose column names are stripped and lowercased
normalize_columns(df) ==
    [df EXCEPT !.columns = [i \in 1..Len(df.columns) |-> lower(strip(df.columns[i]))]]

\* df[c] = "": a new last column, the empty string in every row
SetNewColumn(df, c) ==
    [df EXCEPT !.columns = Append(@, c),
               !.rows = [i \in 1..Len(df.rows) |-> Append(df.rows[i], "")]]

\* a loop body that adds the column without looking at df.columns
EnsureStepBlind(df, c) == SetNewColumn(df, c)

\* the loop body: if c not in df.columns: df[c] = ""
EnsureStep(df, c) == IF c \notin Range(df.columns) THEN SetNewColumn(df, c) ELSE df

\* ensure_cols: the for loop over cols, on the frame it was given
RECURSIVE ensure_cols(_, _)
ensure_cols(df, cols) ==
    IF cols = <<>> THEN df ELSE ensure_cols(EnsureStep(df, Head(cols)), Tail(cols))

\* df[name]: the Series of the cells of column name, one per row
Column(df, name) ==
    LET c == CHOOSE i \in 1..Len(df.columns) : df.columns[i] = name
    IN  [i \in 1..Len(df.rows) |-> df.rows[i][c]]

\* positions of the rows whose mask value is True, in order, from position i on
RECURSIVE Kept(_, _)
Kept(mask, i) ==
    IF i > Len(mask) THEN <<>>
    ELSE (IF mask[i] THEN <<i>> ELSE <<>>) \o Kept(mask, i + 1)

\* df[mask]: the kept rows with the index labels they had
BoolIndex(df, mask) ==
    LET ks == Kept(mask, 1)
    IN  [columns |-> df.columns,
         index |-> [j \in 1..Len(ks) |-> df.index[ks[j]]],
         rows |-> [j \in 1..Len(ks) |-> df.rows[ks[j]]]]

\* df.reset_index(drop=True)
reset_index(df) == [df EXCEPT !.index = [j \in 1..Len(df.rows) |-> j - 1]]

\* Series.str.contains(pat, case=False, regex=False): pat.upper() in x.upper()
ContainsNoCase(x, pat) == In(upper(pat), upper(x))

\* Series.str.lower().str.contains(patt, regex=False)
LowerContains(x, patt) == In(patt, lower(x))

\* the filter of the column "tipo" kept although the selection is empty
TipoStepAlways(df, filtro_tipo) ==
    BoolIndex(df, [i \in 1..Len(df.rows) |-> Column(df, "tipo")[i] \in filtro_tipo])

\* if filtro_tipo: filtered = filtered[filtered["tipo"].isin(filtro_tipo)]
TipoStep(df, filtro_tipo) ==
    IF filtro_tipo # {}
    THEN BoolIndex(df, [i \in 1..Len(df.rows) |-> Column(df, "tipo")[i] \in filtro_tipo])
    ELSE df

BaseStep(df, filtro_base) ==
    IF filtro_base # {}
    THEN BoolIndex(df, [i \in 1..Len(df.rows) |->
                           Column(df, "base_model")[i] \in filtro_base])
    ELSE df

EstiloStep(df, filtro_estilo) ==
    IF filtro_estilo # <<>>
    THEN BoolIndex(df, [i \in 1..Len(df.rows) |->
                           ContainsNoCase(Column(df, "estilo_utilizacao")[i], filtro_estilo)])
    ELSE df

SearchMlStep(df, filtro_search) ==
    IF filtro_search # <<>>
    THEN LET patt == lower(filtro_search)
             mask == [i \in 1..Len(df.rows) |->
                         \/ LowerContains(Column(df, "nome")[i], patt)
                         \/ LowerContains(Column(df, "notas")[i], patt)]
         IN  BoolIndex(df, mask)
    ELSE df

filter_modelos_loras(df, filtro_tipo, filtro_base, filtro_estilo, filtro_search) ==
    reset_index(
        SearchMlStep(
            EstiloStep(BaseStep(TipoStep(df, filtro_tipo), filtro_base), filtro_estilo),
            filtro_search))

ObjetivoStep(df, filtro_objetivo) ==
    IF filtro_objetivo # <<>>
    THEN BoolIndex(df, [i \in 1..Len(df.rows) |->
                           ContainsNoCase(Column(df, "objetivo")[i], filtro_objetivo)])
    ELSE df

SearchWfStep(df, filtro_search) ==
    IF filtro_search # <<>>
    THEN LET patt == lower(filtro_search)
             mask == [i \in 1..Len(df.rows) |->
                         \/ LowerContains(Column(df, "nome")[i], patt)
                         \/ LowerContains(Column(df, "nodes_principais")[i], patt)
                         \/ LowerContains(Column(df, "dependencias")[i], patt)]
         IN  BoolIndex(df, mask)
    ELSE df

filter_workflows(df, filtro_objetivo, filtro_search) ==
    reset_index(SearchWfStep(ObjetivoStep(df, filtro_objetivo), filtro_search))

-----------------------------------------------------------------------------
(* The credential provider *)

\* What get_google_client reads from its environment:
\*   secret     st.secrets["gcp_service_account"]: absent; present but dict() of it
\*              raises; present and an empty mapping; present and a bundle
\*   env_json   os.environ GOOGLE_CREDENTIALS: unset; only whitespace; text json.loads
\*              rejects; JSON of a falsy value; JSON of a bundle
\*   authorize  Credentials.from_service_account_info and gspread.authorize on a
\*              bundle: succeed, reject the key, or reject the account
CredEnvs == [secret : {"absent", "unreadable", "empty", "bundle"},
             env_json : {"unset", "blank", "malformed", "empty", "bundle"},
             authorize : {"ok", "bad_key", "denied"}]

\* a client handle, named after the source of its bundle
Client(source) == IF source = "secret" THEN "client of secret" ELSE "client of env"

Returned(client, steps) == [client |-> client, steps |-> steps, raised |-> FALSE]

\* an exception that leaves get_google_client
Raised(steps) == [client |-> None, steps |-> steps, raised |-> TRUE]

\* step 2 with json.loads outside the try: its exception is not caught
EnvStepUncaught(e, credentials_dict) ==
    IF e.env_json \in {"unset", "blank"}
    THEN [dict |-> credentials_dict, steps |-> <<"environ">>, raised |-> FALSE]
    ELSE IF e.env_json = "malformed"
    THEN [dict |-> credentials_dict, steps |-> <<"environ", "json.loads">>, raised |-> TRUE]
    ELSE [dict |-> IF e.env_json = "bundle" THEN "env" ELSE "falsy",
          steps |-> <<"environ", "json.loads">>, raised |-> FALSE]

\* step 2, lines 127-135: the environment variable is read and parsed inside a
\* try whose except keeps credentials_dict as it was
EnvStep(e, credentials_dict) ==
    IF e.env_json \in {"unset", "blank"}
    THEN [dict |-> credentials_dict, steps |-> <<"environ">>, raised |-> FALSE]
    ELSE IF e.env_json = "malformed"
    THEN [dict |-> credentials_dict, steps |-> <<"environ", "json.loads">>, raised |-> FALSE]
    ELSE [dict |-> IF e.env_json = "bundle" THEN "env" ELSE "falsy",
          steps |-> <<"environ", "json.loads">>, raised |-> FALSE]

\* lines 142-166: authorize inside a try when credentials_dict is truthy
AuthStep(e, credentials_dict, steps) ==
    IF credentials_dict \notin {None, "falsy"}
    THEN Returned(IF e.authorize = "ok" THEN Client(credentials_dict) ELSE None,
                  steps \o <<"authorize">>)
    ELSE Returned(None, steps)

\* The body of get_google_client.  credentials_dict is None, "falsy" (an empty
\* mapping) or the source of the bundle it holds.
get_google_client(e) ==
    IF e.secret = "unreadable"
    THEN Returned(None, <<"secret">>)
    ELSE LET d1 == CASE e.secret = "absent" -> None
                     [] e.secret = "empty" -> "falsy"
                     [] e.secret = "bundle" -> "secret"
             s1 == IF e.secret = "absent" THEN <<>> ELSE <<"secret">>
             env == IF d1 \in {None, "falsy"}
                    THEN EnvStep(e, d1)
                    ELSE [dict |-> d1, steps |-> <<>>, raised |-> FALSE]
         IN  IF env.raised THEN Raised(s1 \o env.steps)
             ELSE AuthStep(e, env.dict, s1 \o env.steps)

-----------------------------------------------------------------------------
(* The dataset loader *)

\* What the remote service does in one load: the first stage that fails, or "ok"
RemoteStates == {"open_fails", "no_modelos_loras", "no_workflows",
                 "read_ml_fails", "read_wf_fails", "ok"}

NaN == "NaN"

\* the rows get_all_records returns for the two worksheets (header, records)
RecordsML == [header |-> << <<" ","T","i","p","o">>, <<"N","O","M","E"," ">> >>,
              records |-> << <<"LoRA", "Realistic Portrait">>, <<"Modelo", NaN>> >>]
RecordsWF == [header |-> << <<"n","o","m","e">> >>,
              records |-> << <<"Retrato base">> >>]

\* DataFrame.fillna("")
fillna(df) ==
    [df EXCEPT !.rows = [i \in 1..Len(df.rows) |->
        [j \in 1..Len(df.rows[i]) |-> IF df.rows[i][j] = NaN THEN "" ELSE df.rows[i][j]]]]

\* pd.DataFrame(ws.get_all_records()).fillna("")
ReadFrame(recs) == fillna(DataFrame(recs.header, recs.records))

\* An error message is modelled by what the loader's own text puts in it: the
\* stage, the identifiers it embeds and the worksheets it names (sequences, empty
\* when the text has none).  The text of the caught exception, {e}, belongs to
\* the library and is left out.  The third component of a result is a sequence:
\* empty for None, else the one message.
ErrorMsg(stage, sheet_ids, worksheets) ==
    [stage |-> stage, sheet_ids |-> sheet_ids, worksheets |-> worksheets]

NoError == <<>>

Failure(error) == [df_ml |-> EmptyFrame, df_wf |-> EmptyFrame, error |-> <<error>>]

\* "Falha na autenticacao (veja mensagens acima)"
AuthFailure == Failure(ErrorMsg("auth", <<>>, <<>>))

\* an open failure whose message leaves the identifier out
OpenFailureNoId(sheet_id) == Failure(ErrorMsg("open", <<>>, <<>>))

\* f"Falha ao abrir Sheet (ID: {sheet_id}): {e}"
OpenFailure(sheet_id) == Failure(ErrorMsg("open", <<sheet_id>>, <<>>))

\* f"Folha 'modelos_loras' nao encontrada: {e}", f"Folha 'workflows' nao encontrada: {e}"
WorksheetFailure(name) == Failure(ErrorMsg("worksheet", <<>>, <<name>>))

\* a read failure that hands back the Assets table it had already read
ReadFailureKeepsAssets(df_ml) ==
    [df_ml |-> df_ml, df_wf |-> EmptyFrame, error |-> <<ErrorMsg("read", <<>>, <<>>)>>]

\* f"Erro ao ler dados do Sheet: {e}"; df_ml is what line 213 had read, if anything
ReadFailure(df_ml) == Failure(ErrorMsg("read", <<>>, <<>>))

\* lines 220-223: both frames normalised, the error None (astype(str) leaves the
\* string cells of the model as they are)
Success(df_ml, df_wf) ==
    [df_ml |-> normalize_columns(df_ml), df_wf |-> normalize_columns(df_wf),
     error |-> NoError]

\* lines 181-223 of load_sheet: the remote calls made, in order, and the result
Fetch(sheet_id, remote) ==
    LET open == <<"open_by_key">>
        ws1 == open \o <<"worksheet modelos_loras">>
        ws2 == ws1 \o <<"worksheet workflows">>
        rd1 == ws2 \o <<"get_all_records modelos_loras">>
        rd2 == rd1 \o <<"get_all_records workflows">>
    IN  CASE remote = "open_fails" ->
                [result |-> OpenFailure(sheet_id), ops |-> open]
          [] remote = "no_modelos_loras" ->
                [result |-> WorksheetFailure("modelos_loras"), ops |-> ws1]
          [] remote = "no_workflows" ->
                [result |-> WorksheetFailure("workflows"), ops |-> ws2]
          [] remote = "read_ml_fails" ->
                [result |-> ReadFailure(EmptyFrame), ops |-> rd1]
          [] remote = "read_wf_fails" ->
                [result |-> ReadFailure(ReadFrame(RecordsML)), ops |-> rd2]
          [] remote = "ok" ->
                [result |-> Success(ReadFrame(RecordsML), ReadFrame(RecordsWF)),
                 ops |-> rd2]

\* a loader without the test of line 178: open_by_key on None raises inside the
\* try of line 181 after the call was attempted
load_sheet_unchecked(sheet_url_or_id, client, remote) ==
    IF client = None
    THEN [result |-> OpenFailure(extract_sheet_id(sheet_url_or_id)),
          ops |-> <<"open_by_key">>]
    ELSE Fetch(extract_sheet_id(sheet_url_or_id), remote)

\* The body of load_sheet, given the client get_google_client() returned and what
\* the remote service does.
load_sheet(sheet_url_or_id, client, remote) ==
    LET sheet_id == extract_sheet_id(sheet_url_or_id)
    IN  IF client = None
        THEN [result |-> AuthFailure, ops |-> <<>>]
        ELSE Fetch(sheet_id, remote)

-----------------------------------------------------------------------------
(* The two caches *)

\* ttl=300 of st.cache_data
TTL == 300

\* a cache slot is a sequence: empty, or the one entry it holds
NoEntry == <<>>

\* the strings the user may have in the "Sheet URL ou ID" field: a bare
\* identifier and a URL of the same identifier
SampleId == <<"I","d","-","1">>
SampleUrl == <<"h",":">> \o UrlPrefix \o SampleId \o <<"/","e">>
Inputs == {SampleId, SampleUrl}

\* a cache that keys load_sheet by the identifier its argument resolves to
CacheKeyResolved(sheet_url_or_id) == extract_sheet_id(sheet_url_or_id)

\* st.cache_data keys an entry by the function's argument
CacheKey(sheet_url_or_id) == sheet_url_or_id

Keys == Inputs \cup {extract_sheet_id(s) : s \in Inputs}

\* an entry is served while the timer is below its expiry, stored_at + ttl
Fresh(entry, now) == now < entry.stored_at + TTL

\* the entry a computed result is stored as
DataStore(value, now) == <<[value |-> value, stored_at |-> now]>>

\* a resource cache that does not remember a None
ResourceStoreTruthy(value) == IF value = None THEN NoEntry ELSE <<value>>

\* st.cache_resource stores whatever the function returned, None included
ResourceStore(value) == <<value>>

-----------------------------------------------------------------------------
(* The script: one run per interaction, the reload button, the cached load *)

Both == {"data", "resource"}

FnIdle == arg = <<>> /\ ret = <<>> /\ phase = "none"

LoaderIdle ==
    /\ clock = 0
    /\ data_cache = [k \in Keys |-> NoEntry]
    /\ resource_cache = NoEntry
    /\ sheet_url_input = SampleId
    /\ pc = "load"
    /\ cleared = {}
    /\ history = [s \in Inputs |-> <<>>]
    /\ resolve_runs = 0
    /\ clients_seen = {}
    /\ last_load = <<>>

\* Process start: empty caches, the field holds its default (the secret sheet_url
\* or DEFAULT_URL), and the first script run is about to reach line 299.
Init ==
    /\ LoaderIdle
    /\ FnIdle

\* Time passes between interactions, in steps of two thirds of the ttl: an entry
\* is live one step after it was stored and expired two steps after.
Tick ==
    /\ pc = "idle"
    /\ LET d == (2 * TTL) \div 3
       IN  /\ clock + d <= MaxTime
           /\ clock' = clock + d
    /\ UNCHANGED <<data_cache, resource_cache, sheet_url_input, pc, cleared,
                   history, resolve_runs, clients_seen, last_load, fn_vars>>

\* The user edits the field or touches another widget: the script reruns with the
\* button unpressed and reaches the load of line 299.
Interact ==
    /\ pc = "idle"
    /\ \E s \in Inputs : sheet_url_input' = s
    /\ pc' = "load"
    /\ UNCHANGED <<clock, data_cache, resource_cache, cleared, history,
                   resolve_runs, clients_seen, last_load, fn_vars>>

\* The user presses the reload button: the script reruns and enters line 274.
PressReload ==
    /\ pc = "idle"
    /\ pc' = "line 274"
    /\ UNCHANGED <<clock, data_cache, resource_cache, sheet_url_input, cleared,
                   history, resolve_runs, clients_seen, last_load, fn_vars>>

\* line 274: st.cache_data.clear()
ClearData ==
    /\ pc = "line 274"
    /\ data_cache' = [k \in Keys |-> NoEntry]
    /\ history' = [s \in Inputs |-> <<>>]
    /\ cleared' = cleared \cup {"data"}
    /\ pc' = "line 275"
    /\ UNCHANGED <<clock, resource_cache, sheet_url_input, resolve_runs,
                   clients_seen, last_load, fn_vars>>

\* a handler without line 275: it goes straight to st.rerun()
RerunWithoutClearResource ==
    /\ pc = "line 275"
    /\ pc' = "load"
    /\ UNCHANGED <<clock, data_cache, resource_cache, sheet_url_input, cleared,
                   history, resolve_runs, clients_seen, last_load, fn_vars>>

\* lines 275-276: st.cache_resource.clear(), then st.rerun() restarts the script,
\* which reaches the load of line 299
ClearResource ==
    /\ pc = "line 275"
    /\ resource_cache' = NoEntry
    /\ resolve_runs' = 0
    /\ clients_seen' = {}
    /\ cleared' = cleared \cup {"resource"}
    /\ pc' = "load"
    /\ UNCHANGED <<clock, data_cache, sheet_url_input, history, last_load, fn_vars>>

\* The state after load_sheet(s) was served from st.cache_data.
Served(s, entry) ==
    /\ last_load' = <<[input |-> s, hit |-> TRUE, result |-> entry.value,
                       resolved |-> FALSE, steps |-> <<>>, client |-> "not asked",
                       ops |-> <<>>, cleared |-> cleared]>>
    /\ history' = [history EXCEPT ![s] =
                      <<[loaded_at |-> clock,
                         fetched_at |-> IF history[s] = <<>> THEN <<>>
                                        ELSE history[s][1].fetched_at,
                         result |-> entry.value]>>]
    /\ UNCHANGED <<data_cache, resource_cache, resolve_runs, clients_seen>>

\* The state after the body of load_sheet(s) ran with the client it was handed.
\* cred is what get_google_client's body did, if it ran (resolved).
Computed(s, resolved, cred, client, remote) ==
    LET body == load_sheet(s, client, remote)
    IN  /\ data_cache' = [data_cache EXCEPT ![CacheKey(s)] = DataStore(body.result, clock)]
        /\ clients_seen' = clients_seen \cup {client}
        /\ last_load' = <<[input |-> s, hit |-> FALSE, result |-> body.result,
                           resolved |-> resolved,
                           steps |-> IF resolved THEN cred.steps ELSE <<>>,
                           client |-> client, ops |-> body.ops, cleared |-> cleared]>>
        /\ history' = [history EXCEPT ![s] =
                          <<[loaded_at |-> clock, fetched_at |-> <<clock>>,
                             result |-> body.result]>>]

\* line 299: load_sheet(st.session_state["sheet_url_input"]) through st.cache_data,
\* and inside its body get_google_client() through st.cache_resource.  e and
\* remote are what the environment and the remote service do when consulted.
Load ==
    /\ pc = "load"
    /\ LET s == sheet_url_input
           slot == data_cache[CacheKey(s)]
       IN  IF slot # NoEntry /\ Fresh(slot[1], clock)
           THEN Served(s, slot[1])
           ELSE \E remote \in RemoteStates :
                  IF resource_cache # NoEntry
                  THEN /\ Computed(s, FALSE, <<>>, resource_cache[1], remote)
                       /\ UNCHANGED <<resource_cache, resolve_runs>>
                  ELSE \E e \in CredEnvs :
                         LET cred == get_google_client(e)
                         IN  /\ Computed(s, TRUE, cred, cred.client, remote)
                             /\ resource_cache' = ResourceStore(cred.client)
                             /\ resolve_runs' = IF resolve_runs < MaxRuns
                                                THEN resolve_runs + 1 ELSE resolve_runs
    /\ cleared' = {}
    /\ pc' = "idle"
    /\ UNCHANGED <<clock, sheet_url_input, fn_vars>>

Next == Tick \/ Interact \/ PressReload \/ ClearData \/ ClearResource \/ Load

Spec == Init /\ [][Next]_vars

-----------------------------------------------------------------------------
(* Properties of the loader and its caches, under Spec *)

AllOps == <<"open_by_key", "worksheet modelos_loras", "worksheet workflows",
            "get_all_records modelos_loras", "get_all_records workflows">>

\* the two tables of a successful load: names stripped and lowercased, NaN filled
AssetsTable ==
    [columns |-> << <<"t","i","p","o">>, <<"n","o","m","e">> >>,
     index |-> <<0, 1>>,
     rows |-> << <<"LoRA", "Realistic Portrait">>, <<"Modelo", "">> >>]
WorkflowsTable ==
    [columns |-> << <<"n","o","m","e">> >>, index |-> <<0>>, rows |-> << <<"Retrato base">> >>]

\* C1: every load returns either (assets, workflows, None), and then every stage
\* ran, or (empty table, empty table, error): no table with rows or columns ever
\* comes with an error, whichever stage failed; the same holds of every cached result.
C1_AllOrNothing ==
    LET Shape(r) == \/ /\ r.error = NoError
                       /\ r.df_ml = AssetsTable
                       /\ r.df_wf = WorkflowsTable
                    \/ /\ Len(r.error) = 1
                       /\ r.df_ml = EmptyFrame
                       /\ r.df_wf = EmptyFrame
    IN  /\ \A k \in Keys : data_cache[k] # NoEntry => Shape(data_cache[k][1].value)
        /\ last_load # <<>> =>
             /\ Shape(last_load[1].result)
             /\ (~last_load[1].hit /\ last_load[1].result.error = NoError) =>
                   (last_load[1].ops = AllOps /\ last_load[1].client # None)
             /\ (~last_load[1].hit /\ last_load[1].ops # AllOps) =>
                   last_load[1].result.error # NoError

\* 'workflows' was not found after 'modelos_loras' had been, and a load failed
\* reading the second worksheet after the first had been read
C1_Witness ==
    /\ last_load # <<>>
    /\ ~last_load[1].hit
    /\ last_load[1].ops = AllOps
    /\ last_load[1].result.error # NoError
    /\ \E k \in Keys : /\ data_cache[k] # NoEntry
                       /\ data_cache[k][1].value.error # NoError
                       /\ data_cache[k][1].value.error[1].worksheets = <<"workflows">>

\* C2: a load whose credential provider yields None returns the authentication
\* error and makes no remote call.
C2_NoClientNoRemote ==
    (last_load # <<>> /\ ~last_load[1].hit /\ last_load[1].client = None) =>
        /\ last_load[1].result = AuthFailure
        /\ last_load[1].ops = <<>>

\* the provider ran, found no secret and no environment variable, and the load failed
C2_Witness ==
    /\ last_load # <<>>
    /\ last_load[1].resolved
    /\ last_load[1].steps = <<"environ">>
    /\ last_load[1].client = None
    /\ last_load[1].result.error[1].stage = "auth"

\* A step of Load seen from its pre-state: h is the history of the argument, l
\* the record of the load the step makes.
LoadStep(P(_, _)) ==
    (pc = "load" /\ last_load' # <<>> /\ pc' = "idle") =>
        P(history[sheet_url_input], last_load'[1])

\* C3 as stated: a load of s less than 300 seconds after a previous load of s,
\* with no reload in between, returns the same result without a remote call; a
\* load of s after the entry has expired runs afresh; a string never loaded is
\* not served from the entry of another string.
C3_AsStated ==
    [][LoadStep(LAMBDA h, l :
          /\ (h # <<>> /\ clock - h[1].loaded_at < TTL) =>
                (l.hit /\ l.result = h[1].result /\ l.ops = <<>>)
          /\ (h # <<>> /\ h[1].fetched_at # <<>> /\ clock - h[1].fetched_at[1] >= TTL) =>
                ~l.hit
          /\ h = <<>> => ~l.hit)]_vars

\* C3, amended: the entry of s lives 300 seconds from the load that computed it.
\* A load of s less than 300 seconds after the latest load of s that ran the body
\* (no reload in between) is served from the cache: same result, no remote call,
\* no credential resolution.  Any other load of s runs the body afresh: when the
\* entry is 300 seconds old or older, and when s itself was never loaded, even if
\* another string resolving to the same identifier was loaded a moment ago.
C3_TtlFromFetch ==
    [][LoadStep(LAMBDA h, l :
          LET fetched == IF h = <<>> THEN <<>> ELSE h[1].fetched_at
              fresh == fetched # <<>> /\ clock - fetched[1] < TTL
          IN  /\ fresh => (l.hit /\ l.result = h[1].result /\ l.ops = <<>> /\ ~l.resolved)
              /\ ~fresh => ~l.hit)]_vars

\* the URL was loaded afresh while the bare identifier it resolves to had a live
\* entry, and the latest load of the URL was served from the cache
C3_Witness ==
    /\ last_load # <<>>
    /\ last_load[1].hit
    /\ last_load[1].input = SampleUrl
    /\ data_cache[SampleId] # NoEntry
    /\ data_cache[SampleUrl] # NoEntry
    /\ data_cache[SampleId][1].stored_at < data_cache[SampleUrl][1].stored_at
    /\ data_cache[SampleUrl][1].stored_at < data_cache[SampleId][1].stored_at + TTL
    /\ data_cache[SampleUrl][1].value # data_cache[SampleId][1].value

C5_AsStated ==
    (last_load # <<>> /\ last_load[1].result.error # NoError) =>
        /\ last_load[1].result.error[1].stage \in {"auth", "open", "worksheet", "read"}
        /\ last_load[1].result.error[1].sheet_ids =
              <<extract_sheet_id(last_load[1].input)>>

\* C5, amended: every failure short-circuits with an error that names the stage
\* that failed; the open-dataset error embeds the resolved identifier and is the
\* only one whose text does; each sub-table error names its sub-table; the
\* no-credentials error and the data-read error embed neither.
C5_StageAndIdentifier ==
    (last_load # <<>> /\ last_load[1].result.error # NoError) =>
        LET l == last_load[1]
            err == l.result.error[1]
            n == Len(l.ops)
        IN  /\ err.stage \in {"auth", "open", "worksheet", "read"}
            /\ err.sheet_ids = IF err.stage = "open"
                               THEN <<extract_sheet_id(l.input)>> ELSE <<>>
            /\ err.worksheets # <<>> => err.stage = "worksheet"
            /\ ~l.hit =>
                 /\ err.stage = "auth" <=> n = 0
                 /\ err.stage = "open" <=> n = 1
                 /\ (err.stage = "worksheet" /\ err.worksheets = <<"modelos_loras">>) <=> n = 2
                 /\ (err.stage = "worksheet" /\ err.worksheets = <<"workflows">>) <=> n = 3
                 /\ err.stage = "read" <=> n \in {4, 5}
                 /\ l.ops = SubSeq(AllOps, 1, n)

\* the URL failed to open, and the error embeds the identifier extracted from it
C5_Witness ==
    /\ last_load # <<>>
    /\ last_load[1].input = SampleUrl
    /\ last_load[1].ops = <<"open_by_key">>
    /\ last_load[1].result.error[1].sheet_ids = <<SampleId>>

\* C10: from one clear of the resource cache to the next (or from process start),
\* the body of get_google_client runs at most once however many loads run, every
\* load body is handed the same client or the same None, and a load whose body
\* runs without resolving credentials (another argument, an expired entry) is
\* handed the memoized value: expiry of the data cache alone resolves nothing.
C10_ClientMemoized ==
    /\ resolve_runs <= 1
    /\ Cardinality(clients_seen) <= 1
    /\ (pc = "idle" /\ ~last_load[1].hit /\ ~last_load[1].resolved) =>
          /\ resource_cache # NoEntry
          /\ last_load[1].client = resource_cache[1]
          /\ resolve_runs = 1

\* an entry expired, the body ran again 300 seconds or more after process start,
\* and it was handed the memoized None without a second resolution
C10_Witness ==
    /\ last_load # <<>>
    /\ ~last_load[1].hit
    /\ ~last_load[1].resolved
    /\ last_load[1].client = None
    /\ clock >= TTL
    /\ pc = "idle"
    /\ history[SampleId] # <<>> /\ history[SampleUrl] # <<>>
    /\ resolve_runs = 1

-----------------------------------------------------------------------------
(* extract_sheet_id on strings built from pieces: SpecResolve *)

\* characters of the class, a slash and characters outside the class
SampleChars == {"a", "7", "_", "/", "?"}

\* a run of class characters one short of the {20,} bound
ShortRun == [i \in 1..(MinIdLen - 1) |-> "x"]

InitResolve ==
    /\ LoaderIdle
    /\ arg = [s |-> <<>>, pieces |-> 0]
    /\ ret = <<>>
    /\ phase = "input"

Extend(piece) ==
    /\ phase = "input"
    /\ arg.pieces < MaxPieces
    /\ arg' = [s |-> arg.s \o piece, pieces |-> arg.pieces + 1]
    /\ UNCHANGED <<ret, phase, loader_vars>>

AppendChar == \E c \in SampleChars : Extend(<<c>>)
AppendUrlPrefix == Extend(UrlPrefix)
AppendShortRun == Extend(ShortRun)

\* sheet_id = extract_sheet_id(sheet_url_or_id)
Resolve ==
    /\ phase = "input"
    /\ ret' = extract_sheet_id(arg.s)
    /\ phase' = "done"
    /\ UNCHANGED <<arg, loader_vars>>

NextResolve == AppendChar \/ AppendUrlPrefix \/ AppendShortRun \/ Resolve

SpecResolve == InitResolve /\ [][NextResolve]_vars

\* C7: extract_sheet_id is total and equals its specification: "" yields "", a
\* string of 20 or more class characters is returned unchanged; otherwise, when
\* "/spreadsheets/d/" followed by a class character occurs, the result is the
\* whole run of class characters after the leftmost such occurrence; otherwise
\* the input is returned unchanged.
C7_ResolverSpecification ==
    phase = "done" =>
        LET s == arg.s
            r == ret
            n == Len(UrlPrefix)
            IdShaped == Len(s) >= MinIdLen /\ \A i \in 1..Len(s) : s[i] \in IdChars
            \* the URL form starts at i: the literal, then at least one class character
            UrlAt(i) == /\ i + n <= Len(s)
                        /\ \A j \in 1..n : s[i + j - 1] = UrlPrefix[j]
                        /\ s[i + n] \in IdChars
            \* r is the <ID> of the URL form at i: all of the run, and no more
            IdAt(i) == /\ UrlAt(i)
                       /\ Len(r) >= 1
                       /\ i + n + Len(r) - 1 <= Len(s)
                       /\ \A j \in 1..Len(r) : r[j] = s[i + n + j - 1] /\ r[j] \in IdChars
                       /\ (i + n + Len(r) <= Len(s)) => s[i + n + Len(r)] \notin IdChars
        IN  CASE s = <<>> -> r = <<>>
              [] s # <<>> /\ IdShaped -> r = s
              [] s # <<>> /\ ~IdShaped /\ (\E i \in 1..Len(s) : UrlAt(i)) ->
                    \E i \in 1..Len(s) : IdAt(i) /\ \A k \in 1..(i - 1) : ~UrlAt(k)
              [] OTHER -> r = s

\* a URL whose identifier is 20 characters long and is followed by more text
C7_Witness ==
    /\ phase = "done"
    /\ Len(ret) = MinIdLen
    /\ ret # arg.s
    /\ Len(arg.s) > Len(UrlPrefix) + Len(ret)

-----------------------------------------------------------------------------
(* ensure_cols applied twice to a frame: SpecEnsure *)

FrameNames == {"tipo", "x"}
RequiredNames == {"tipo", "notas"}

\* the text of the cell in row i, column j of a frame given to ensure_cols
CellText(i, j) == <<"a", "b", "c", "d">>[i] \o <<"1", "2", "3", "4">>[j]

SeqsUpTo(S, n) == UNION {[1..k -> S] : k \in 0..n}

InitEnsure ==
    /\ LoaderIdle
    /\ \E columns \in SeqsUpTo(FrameNames, MaxCols), n \in 0..MaxRows,
          cols \in SeqsUpTo(RequiredNames, MaxReq) :
         LET df == [columns |-> columns,
                    index |-> [i \in 1..n |-> i - 1],
                    rows |-> [i \in 1..n |-> [j \in 1..Len(columns) |-> CellText(i, j)]]]
         IN  arg = [given |-> df, df |-> df, cols |-> cols]
    /\ ret = <<>>
    /\ phase = "input"

\* df = ensure_cols(df, cols): the frame is changed in place and returned
CallEnsure(from, to) ==
    /\ phase = from
    /\ LET out == ensure_cols(arg.df, arg.cols)
       IN  /\ ret' = Append(ret, out)
           /\ arg' = [arg EXCEPT !.df = out]
    /\ phase' = to
    /\ UNCHANGED loader_vars

EnsureOnce == CallEnsure("input", "once")
EnsureTwice == CallEnsure("once", "twice")

NextEnsure == EnsureOnce \/ EnsureTwice

SpecEnsure == InitEnsure /\ [][NextEnsure]_vars

\* the names of R absent from columns, each once, in the order of R
RECURSIVE MissingInOrder(_, _)
MissingInOrder(R, columns) ==
    IF R = <<>> THEN <<>>
    ELSE LET rest == MissingInOrder(SubSeq(R, 1, Len(R) - 1), columns)
             c == R[Len(R)]
         IN  IF c \in Range(columns) \/ c \in Range(rest) THEN rest ELSE Append(rest, c)

\* C9: ensure_cols is idempotent.  The first application appends each missing
\* required column in the order of R, filled with empty strings, and leaves the
\* existing columns, their positions, the index and the rows as they were; the
\* second application returns the same table.
C9_EnsureIdempotent ==
    /\ phase \in {"once", "twice"} =>
          LET t == arg.given
              added == MissingInOrder(arg.cols, t.columns)
          IN  /\ ret[1].columns = t.columns \o added
              /\ ret[1].index = t.index
              /\ Len(ret[1].rows) = Len(t.rows)
              /\ \A i \in 1..Len(t.rows) :
                    ret[1].rows[i] = t.rows[i] \o [j \in 1..Len(added) |-> ""]
              /\ \A c \in Range(arg.cols) : c \in Range(ret[1].columns)
    /\ phase = "twice" => ret[2] = ret[1]

\* a frame with rows that had one required column and lacked another, named
\* twice in R, after the second application
C9_Witness ==
    /\ phase = "twice"
    /\ arg.given.rows # <<>>
    /\ "tipo" \in Range(arg.given.columns)
    /\ arg.cols = <<"notas", "tipo", "notas">>
    /\ Len(ret[2].columns) = Len(arg.given.columns) + 1

-----------------------------------------------------------------------------
(* The two filters on small tables: SpecFilter *)

Modelo == <<"M","o","d","e","l","o">>
LoRA == <<"L","o","R","A">>
SDXL == <<"S","D","X","L">>
FLUX == <<"F","L","U","X">>

ColumnsML == <<"tipo", "nome", "base_model", "estilo_utilizacao", "notas">>
ColumnsWF == <<"nome", "objetivo", "nodes_principais", "dependencias">>

\* rows of the Assets table, in the order of ColumnsML
RowPoolML ==
    { <<LoRA, <<"R","e","a","l">>, SDXL, <<"R","e","t">>, <<"s","o","f","t">> >>,
      <<Modelo, <<"A","n","i">>, SDXL, <<"a","r","q">>, <<>> >>,
      <<LoRA, <<"A","n","i">>, FLUX, <<"r","E","T","r">>, <<"p","r","E">> >>,
      <<Modelo, <<"r","E","A","L">>, FLUX, <<"R","e","t">>, <<>> >>,
      <<LoRA, <<"A","n","i">>, SDXL, <<"R","e","t">>, <<>> >> }

\* rows of the Workflows table, in the order of ColumnsWF
RowPoolWF ==
    { << <<"H","i","R","e","s">>, <<"R","e","t">>, <<"K","S">>, <<>> >>,
      << <<"B","a","s","e">>, <<"a","r","q">>, <<"r","e","s">>, <<>> >>,
      << <<"B","a","s","e">>, <<"r","E","T">>, <<"K","S">>, <<"R","E","S","r">> >>,
      << <<"B","a","s","e">>, <<"R","e","t">>, <<"K","S">>, <<>> >> }

\* what the sidebar widgets hold: two multiselects and two text inputs for the
\* Assets table, two text inputs for the Workflows table
CriteriaML == [filtro_tipo : {{}, {LoRA}, {LoRA, Modelo}},
               filtro_base : {{}, {SDXL}},
               filtro_estilo : {<<>>, <<"r","E","t">>},
               filtro_search : {<<>>, <<"R","E">>}]
CriteriaWF == [filtro_objetivo : {<<>>, <<"r","E","t">>},
               filtro_search : {<<>>, <<"R","E","S">>}]

InitFilter ==
    /\ LoaderIdle
    /\ \/ \E c \in CriteriaML :
            arg = [kind |-> "modelos_loras", df |-> DataFrame(ColumnsML, <<>>), criteria |-> c]
       \/ \E c \in CriteriaWF :
            arg = [kind |-> "workflows", df |-> DataFrame(ColumnsWF, <<>>), criteria |-> c]
    /\ ret = <<>>
    /\ phase = "input"

\* one more row in the loaded table
AddRow(pool) ==
    /\ phase = "input"
    /\ Len(arg.df.rows) < MaxRows
    /\ \E r \in pool :
         arg' = [arg EXCEPT !.df = DataFrame(arg.df.columns, Append(arg.df.rows, r))]
    /\ UNCHANGED <<ret, phase, loader_vars>>

AddRowML == arg.kind = "modelos_loras" /\ AddRow(RowPoolML)
AddRowWF == arg.kind = "workflows" /\ AddRow(RowPoolWF)

FilterML(df, c) ==
    filter_modelos_loras(df, c.filtro_tipo, c.filtro_base, c.filtro_estilo, c.filtro_search)
FilterWF(df, c) == filter_workflows(df, c.filtro_objetivo, c.filtro_search)

\* line 325
CallFilterML ==
    /\ phase = "input"
    /\ arg.kind = "modelos_loras"
    /\ ret' = FilterML(arg.df, arg.criteria)
    /\ phase' = "done"
    /\ UNCHANGED <<arg, loader_vars>>

\* line 375
CallFilterWF ==
    /\ phase = "input"
    /\ arg.kind = "workflows"
    /\ ret' = FilterWF(arg.df, arg.criteria)
    /\ phase' = "done"
    /\ UNCHANGED <<arg, loader_vars>>

NextFilter == AddRowML \/ AddRowWF \/ CallFilterML \/ CallFilterWF

SpecFilter == InitFilter /\ [][NextFilter]_vars

\* x contains pat, letter case ignored
ContainsIgnoringCase(x, pat) ==
    \E i \in 0..(Len(x) - Len(pat)) :
        \A j \in 1..Len(pat) : LowerChar(x[i + j]) = LowerChar(pat[j])

\* the criteria c with every criterion outside keep made empty
Only(c, keep) ==
    [f \in DOMAIN c |-> IF f \in keep THEN c[f]
                        ELSE IF f \in {"filtro_tipo", "filtro_base"} THEN {} ELSE <<>>]

\* C8: both filters are conjunctive and order-preserving.  The output holds
\* exactly the input rows that satisfy every active criterion, in input order,
\* with the input's columns and the index renumbered from zero; an empty
\* criterion constrains nothing, so all-empty criteria return every row in
\* order; and filtering by A and B together equals filtering by A and then
\* filtering that result by B, for every split of the criteria into A and B.
C8_FiltersConjunctive ==
    phase = "done" =>
        LET df == arg.df
            c == arg.criteria
            at(r, name) == r[CHOOSE i \in 1..Len(df.columns) : df.columns[i] = name]
            SatML(r) ==
                /\ c.filtro_tipo = {} \/ at(r, "tipo") \in c.filtro_tipo
                /\ c.filtro_base = {} \/ at(r, "base_model") \in c.filtro_base
                /\ c.filtro_estilo = <<>>
                      \/ ContainsIgnoringCase(at(r, "estilo_utilizacao"), c.filtro_estilo)
                /\ c.filtro_search = <<>>
                      \/ ContainsIgnoringCase(at(r, "nome"), c.filtro_search)
                      \/ ContainsIgnoringCase(at(r, "notas"), c.filtro_search)
            SatWF(r) ==
                /\ c.filtro_objetivo = <<>>
                      \/ ContainsIgnoringCase(at(r, "objetivo"), c.filtro_objetivo)
                /\ c.filtro_search = <<>>
                      \/ ContainsIgnoringCase(at(r, "nome"), c.filtro_search)
                      \/ ContainsIgnoringCase(at(r, "nodes_principais"), c.filtro_search)
                      \/ ContainsIgnoringCase(at(r, "dependencias"), c.filtro_search)
            expected == IF arg.kind = "modelos_loras"
                        THEN SelectSeq(df.rows, SatML) ELSE SelectSeq(df.rows, SatWF)
            Filter(t, cr) == IF arg.kind = "modelos_loras"
                             THEN FilterML(t, cr) ELSE FilterWF(t, cr)
        IN  /\ ret.rows = expected
            /\ ret.columns = df.columns
            /\ ret.index = [j \in 1..Len(expected) |-> j - 1]
            /\ c = Only(c, {}) => ret.rows = df.rows
            /\ \A A \in SUBSET DOMAIN c :
                  Filter(Filter(df, Only(c, A)), Only(c, DOMAIN c \ A)) = ret

\* all four criteria of the Assets filter active on a two-row table of which
\* only the second row passes
C8_Witness ==
    /\ phase = "done"
    /\ arg.kind = "modelos_loras"
    /\ arg.criteria.filtro_tipo = {LoRA}
    /\ arg.criteria.filtro_base # {}
    /\ arg.criteria.filtro_estilo # <<>>
    /\ arg.criteria.filtro_search # <<>>
    /\ Len(arg.df.rows) = 2
    /\ ret.rows = <<arg.df.rows[2]>>
    /\ ret.index = <<0>>

-----------------------------------------------------------------------------
(* get_google_client in every environment: SpecCred *)

InitCred ==
    /\ LoaderIdle
    /\ arg = [secret |-> "absent", env_json |-> "unset", authorize |-> "ok"]
    /\ ret = <<>>
    /\ phase = "input"

\* the deployment sets or removes the secret before the process resolves credentials
SetSecret ==
    /\ phase = "input"
    /\ \E v \in {"absent", "unreadable", "empty", "bundle"} : arg' = [arg EXCEPT !.secret = v]
    /\ UNCHANGED <<ret, phase, loader_vars>>

\* GOOGLE_CREDENTIALS is set or unset
SetEnvJson ==
    /\ phase = "input"
    /\ \E v \in {"unset", "blank", "malformed", "empty", "bundle"} :
         arg' = [arg EXCEPT !.env_json = v]
    /\ UNCHANGED <<ret, phase, loader_vars>>

\* what the Google libraries will make of a bundle
SetAuthorize ==
    /\ phase = "input"
    /\ \E v \in {"ok", "bad_key", "denied"} : arg' = [arg EXCEPT !.authorize = v]
    /\ UNCHANGED <<ret, phase, loader_vars>>

\* client = get_google_client(), its body run
CallProvider ==
    /\ phase = "input"
    /\ ret' = <<get_google_client(arg)>>
    /\ phase' = "done"
    /\ UNCHANGED <<arg, loader_vars>>

NextCred == SetSecret \/ SetEnvJson \/ SetAuthorize \/ CallProvider

SpecCred == InitCred /\ [][NextCred]_vars

\* C6 as stated: the sources are tried in order and the first bundle wins; the
\* environment variable is read whenever the secrets store yields no bundle; a
\* parse failure is treated as absent; with no bundle the result is None; no
\* exception leaves the provider.
C6_AsStated ==
    phase = "done" =>
        LET e == arg
            out == ret[1]
        IN  /\ ~out.raised
            /\ e.secret = "bundle" =>
                  /\ "environ" \notin Range(out.steps)
                  /\ out.client \in {None, Client("secret")}
            /\ e.secret # "bundle" => "environ" \in Range(out.steps)
            /\ (e.secret # "bundle" /\ e.env_json # "bundle") => out.client = None

\* C6, amended: the sources are tried in order and the first bundle wins.  A
\* secret that holds a bundle is used and the environment variable is not read;
\* the environment variable is read when the secret is absent or is an empty
\* mapping; a secret that is present but cannot be read ends the resolution with
\* None, the environment variable unread.  A parse failure of the environment
\* variable counts as absent; with no bundle the result is None; a bundle gives
\* a client exactly when authorization succeeds; no exception leaves the provider.
C6_ProviderOrder ==
    phase = "done" =>
        LET e == arg
            out == ret[1]
            read_env == "environ" \in Range(out.steps)
            authorized == "authorize" \in Range(out.steps)
        IN  /\ ~out.raised
            /\ e.secret = "bundle" =>
                  /\ ~read_env
                  /\ authorized
                  /\ out.client = IF e.authorize = "ok" THEN Client("secret") ELSE None
            /\ e.secret \in {"absent", "empty"} =>
                  /\ read_env
                  /\ authorized <=> e.env_json = "bundle"
                  /\ out.client = IF e.env_json = "bundle" /\ e.authorize = "ok"
                                  THEN Client("env") ELSE None
            /\ e.secret = "unreadable" =>
                  /\ ~read_env
                  /\ ~authorized
                  /\ out.client = None

\* no secret and an environment variable that json.loads rejects: None, no exception
C6_Witness ==
    /\ phase = "done"
    /\ arg.secret = "absent"
    /\ arg.env_json = "malformed"
    /\ ret[1].steps = <<"environ", "json.loads">>
    /\ ret[1].client = None
    /\ ~ret[1].raised

====
